---- MODULE Spec2Model ----
(***************************************************************************)
(* Soundarc / EchoArchive: the ingest pipeline of App.tsx (processBlob,    *)
(* resetApp, handleFileUpload), the segment timeline store (the segments   *)
(* replace of reader.onload, updateSegment, the display projection) and    *)
(* the /api/analyze normalisation that feeds it.                           *)
(*                                                                         *)
(* Numbers: times are whole seconds, confidence is in percent (0.6 = 60).  *)
(* An optional value (a field that may be undefined) is a tuple of length  *)
(* 0 (absent) or 1 (present).                                              *)
(***************************************************************************)
EXTENDS Integers, Sequences, FiniteSets, TLC

\* ------------------------------------------------------------- bounds
\* processBlob invocations in one behaviour
MaxIngests == 2
\* edits of the record (updateSegment, updateDesc) in one behaviour
MaxEdits == 1
\* segments in one provider response
MaxSegs == 2
\* largest time (seconds) a user types into the In/Out inputs
MaxTime == 2
\* direct updateSegment calls in one behaviour of StoreSpec
MaxStoreCalls == 2
\* playNarrative invocations that get past the guard in one behaviour
MaxNarrations == 2
\* characters in a descriptive value that exportCSV is given
MaxLen == 2

\* ------------------------------------------------------------- values
None == <<>>
Some(x) == <<x>>

\* null of a string-valued state (error, selectedSegmentId, editingSegmentId)
NULL == "null"

\* null of item (a record, so that it compares with records)
NullItem == [null |-> TRUE]

\* enum AnalysisState (UPLOADING is declared and never assigned)
AnalysisState ==
  {"IDLE", "UPLOADING", "COMPUTING_CHECKSUM", "TRANSCRIBING", "ANALYZING",
   "COMPLETED", "ERROR"}

HumanReviewStatus == {"unreviewed", "approved", "edited"}

SegmentType == {"Speech", "Tune", "Song", "Silence", "Other"}

Tabs == {"desc", "tech", "admin", "struct"}

\* confidence: Number(segment.confidence ?? 0.6), in percent
DefaultConfidence == 60

\* segment_metadata || {} : an object with no field set
EmptyMeta == [tune_type |-> None, tempo_bpm_range |-> None, performers |-> None]

ReelMeta ==
  [tune_type |-> Some("reel"), tempo_bpm_range |-> Some(<<100, 120>>),
   performers |-> Some(<<"fiddler", "piper">>)]

\* a || d on an optional string: undefined and "" are falsy
StrOr(m, d) == IF m = None THEN d ELSE IF m[1] = "" THEN d ELSE m[1]

\* a ?? d : only undefined/null falls through
Nullish(m, d) == IF m = None THEN d ELSE m[1]

\* ------------------------------------------- the provider's raw segments
\* What the model returns inside parsed.segments: every field optional.
RawSegs ==
  { [id |-> None, start_time |-> Some(0), end_time |-> Some(1),
     type |-> Some("Speech"), summary |-> Some("spoken introduction"),
     confidence |-> Some(90), alternatives |-> None, notes |-> None,
     segment_metadata |-> None],
    [id |-> Some("seg_2"), start_time |-> Some(1), end_time |-> Some(2),
     type |-> Some("Tune"), summary |-> None,
     confidence |-> None, alternatives |-> Some(<<"a jig">>), notes |-> None,
     segment_metadata |-> Some(ReelMeta)] }

RECURSIVE SeqsUpTo(_, _)
SeqsUpTo(S, n) ==
  IF n = 0 THEN {<<>>}
  ELSE LET shorter == SeqsUpTo(S, n - 1)
       IN shorter \cup {Append(q, x) : q \in {r \in shorter : Len(r) = n - 1}, x \in S}

\* parsed = toJson(response.text): description and temporal_index optional
ParsedResponses ==
  { [description |-> None, temporal_index |-> None, segments |-> segs] :
      segs \in SeqsUpTo(RawSegs, MaxSegs) }
    \cup { [description |-> Some("A house session."),
            temporal_index |-> Some("0-2: session"),
            segments |-> <<>>] }

\* SynthId that numbers from the 0-based index
SynthId_ZeroBased(index) == "seg_" \o ToString(index)

\* `seg_${index + 1}`
SynthId(index) == "seg_" \o ToString(index + 1)

\* segments.map((segment, index) => ({...}))  -- index is 0-based in the source
NormalizeSegment(segment, index, now) ==
  [id |-> StrOr(segment.id, SynthId(index)),
   start_time |-> Nullish(segment.start_time, 0),
   end_time |-> Nullish(segment.end_time, 0),
   type |-> StrOr(segment.type, "Speech"),
   summary |-> StrOr(segment.summary, "Segment summary unavailable."),
   confidence |-> Nullish(segment.confidence, DefaultConfidence),
   alternatives |-> segment.alternatives,
   notes |-> IF segment.notes = None THEN None
             ELSE IF segment.notes[1] = "" THEN None ELSE segment.notes,
   segment_metadata |-> Nullish(segment.segment_metadata, EmptyMeta),
   provenance |-> [generated_by |-> "gemini-2.5-flash",
                   generated_at |-> now,
                   generation_method |-> "segment_analysis",
                   human_review_status |-> "unreviewed"]]

Normalize(segments, now) ==
  [i \in 1..Len(segments) |-> NormalizeSegment(segments[i], i - 1, now)]

\* `${start.toFixed(2)}-${end.toFixed(2)}: ${summary}` joined by "\n"
RECURSIVE BuildTemporalIndex(_)
BuildTemporalIndex(segments) ==
  IF segments = <<>> THEN ""
  ELSE LET line == ToString(segments[1].start_time) \o ".00-"
                   \o ToString(segments[1].end_time) \o ".00: "
                   \o segments[1].summary
       IN IF Len(segments) = 1 THEN line
          ELSE line \o "\n" \o BuildTemporalIndex(Tail(segments))

\* The JSON body /api/analyze answers with for a parsed model response.
AnalyzeResponse(parsed, now) ==
  LET normalized == Normalize(parsed.segments, now)
  IN [description |-> StrOr(parsed.description, "Semantic overview unavailable."),
      temporal_index |->
        StrOr(parsed.temporal_index,
              IF Len(normalized) > 0 THEN BuildTemporalIndex(normalized) ELSE ""),
      segments |-> normalized]

\* ------------------------------------------------ segment timeline store
\* InsertByStart of a sort that is not stable: x goes before its ties
InsertByStart_BeforeTies(sorted, x) ==
  LET k == Cardinality({i \in 1..Len(sorted) : sorted[i].start_time < x.start_time})
  IN SubSeq(sorted, 1, k) \o <<x>> \o SubSeq(sorted, k + 1, Len(sorted))

\* Array.prototype.sort((a, b) => a.start_time - b.start_time): a stable
\* sort; x goes behind every element that does not compare greater.
InsertByStart(sorted, x) ==
  LET k == Cardinality({i \in 1..Len(sorted) : sorted[i].start_time <= x.start_time})
  IN SubSeq(sorted, 1, k) \o <<x>> \o SubSeq(sorted, k + 1, Len(sorted))

RECURSIVE SortByStart(_)
SortByStart(segs) ==
  IF segs = <<>> THEN <<>>
  ELSE InsertByStart(SortByStart(SubSeq(segs, 1, Len(segs) - 1)), segs[Len(segs)])

IsSorted(segs) ==
  \A i, j \in 1..Len(segs) : i < j => segs[i].start_time <= segs[j].start_time

\* PatchSegment without the forced review status
PatchSegment_KeepStatus(s, updates) ==
  [f \in DOMAIN s |->
     IF f = "provenance" THEN s.provenance
     ELSE IF f \in DOMAIN updates THEN updates[f] ELSE s[f]]

\* PatchSegment with the spreads in the other order: { ...s, provenance, ...updates }
PatchSegment_PatchLast(s, updates) ==
  [f \in DOMAIN s |->
     IF f \in DOMAIN updates THEN updates[f]
     ELSE IF f = "provenance"
       THEN [s.provenance EXCEPT !.human_review_status = "edited"]
       ELSE s[f]]

\* PatchSegment that drops a patch leaving start_time >= end_time or a
\* negative start_time
PatchSegment_Validated(s, updates) ==
  LET patched == [f \in DOMAIN s |->
                    IF f = "provenance"
                      THEN [s.provenance EXCEPT !.human_review_status = "edited"]
                      ELSE IF f \in DOMAIN updates THEN updates[f] ELSE s[f]]
  IN IF 0 <= patched.start_time /\ patched.start_time < patched.end_time
       THEN patched
       ELSE [s EXCEPT !.provenance.human_review_status = "edited"]

\* { ...s, ...updates, provenance: { ...s.provenance, human_review_status: 'edited' } }
PatchSegment(s, updates) ==
  [f \in DOMAIN s |->
     IF f = "provenance"
       THEN [s.provenance EXCEPT !.human_review_status = "edited"]
       ELSE IF f \in DOMAIN updates THEN updates[f] ELSE s[f]]

\* UpdateSegments without the id test: every segment is patched
UpdateSegments_All(segs, segId, updates) ==
  SortByStart([i \in 1..Len(segs) |-> PatchSegment(segs[i], updates)])

\* prev.structural.segments.map(s => s.id === segId ? {...} : s).sort(...)
UpdateSegments(segs, segId, updates) ==
  SortByStart([i \in 1..Len(segs) |->
                 IF segs[i].id = segId THEN PatchSegment(segs[i], updates)
                 ELSE segs[i]])

\* ReplaceSegments that keeps the previous collection in front of the result
ReplaceSegments_Merge(prevSegs, result) == prevSegs \o result.segments

\* structural: { segments: result.segments }
ReplaceSegments(prevSegs, result) == result.segments

\* ------------------------------------------------------ the projection
\* Category that takes only Tune for music
Category_TuneOnly(type) ==
  IF type = "Tune" THEN "music" ELSE IF type = "Speech" THEN "speech" ELSE "other"

\* s.type === 'Tune' || s.type === 'Song' ? 'music' : s.type === 'Speech' ? 'speech' : 'other'
Category(type) ==
  IF type = "Tune" \/ type = "Song" THEN "music"
  ELSE IF type = "Speech" THEN "speech" ELSE "other"

\* x?.[0] of an optional array
FirstOf(m) == IF m = None THEN None ELSE IF m[1] = <<>> THEN None ELSE Some(m[1][1])

\* One AudioSegment of the useMemo projection (of segment_metadata the
\* fields the model carries)
ProjectSegment(s) ==
  [id |-> s.id,
   startTime |-> s.start_time,
   endTime |-> s.end_time,
   label |-> s.type,
   category |-> Category(s.type),
   confidence |-> s.confidence,
   metadata |->
     [description |-> s.summary,
      performer |-> FirstOf(s.segment_metadata.performers),
      tuneType |-> s.segment_metadata.tune_type,
      tempo |-> IF s.segment_metadata.tempo_bpm_range = None THEN None
                ELSE Some(ToString(s.segment_metadata.tempo_bpm_range[1][1]) \o " BPM"),
      alternatives |-> s.alternatives]]

\* item?.structural.segments.map(s => ({...})) || []
Project(segs) == [i \in 1..Len(segs) |-> ProjectSegment(segs[i])]

\* SelectedSegment that falls back to the first segment of the list
SelectedSegment_Sticky(segs, id) ==
  LET hits == {i \in 1..Len(segs) : segs[i].id = id}
  IN IF hits # {} THEN Some(segs[CHOOSE i \in hits : \A j \in hits : i <= j])
     ELSE IF segs # <<>> THEN Some(segs[1]) ELSE None

\* segments.find(s => s.id === selectedSegmentId) || null
SelectedSegment(segs, id) ==
  LET hits == {i \in 1..Len(segs) : segs[i].id = id}
  IN IF hits = {} THEN None
     ELSE Some(segs[CHOOSE i \in hits : \A j \in hits : i <= j])

\* ------------------------------------------------------------- inputs
\* The file of the k-th upload: name, size, the SHA-256 computeSHA256
\* yields and the duration the audio element reports.
FileOf(k) ==
  [name |-> "take" \o ToString(k) \o ".wav", size |-> 10 * k,
   sha |-> "sha-" \o ToString(k), duration |-> k + 1]

\* data.transcript || data.text || ''
Transcripts == {"", "welcome to the session"}

\* Bodies /api/analyze answers a failed request with; "" is an empty body,
\* for which suggestArchivalSegments throws 'Analysis failed.'
AnalyzeFailureBodies(transcript) ==
  IF transcript = ""
    THEN {"Missing GEMINI_API_KEY on server.", "Transcript required."}
    ELSE {"Missing GEMINI_API_KEY on server.", "Gemini analysis error.", ""}

\* message || 'Analysis failed.'
AnalyzeErrorMessage(body) == IF body = "" THEN "Analysis failed." ELSE body

\* Bodies /api/transcribe answers a failed request with; "" is an empty body
TranscribeFailureBodies ==
  {"Missing ELEVENLABS_API_KEY on server.", "Server transcription error.", ""}

\* message || 'Transcription failed.'
TranscribeErrorMessage(body) == IF body = "" THEN "Transcription failed." ELSE body

\* The patches the In/Out inputs and the Class select issue
UIPatches ==
  {[type |-> t] : t \in SegmentType}
    \cup {[start_time |-> t] : t \in 0..MaxTime}
    \cup {[end_time |-> t] : t \in 0..MaxTime}

\* Partial<StructuralSegment>: any subset of the fields, here one at a time
ApiPatches ==
  UIPatches
    \cup { <<>>,
           [id |-> "seg_9"],
           [summary |-> "corrected summary"],
           [confidence |-> 10],
           [alternatives |-> Some(<<"a hornpipe">>)],
           [segment_metadata |-> EmptyMeta],
           [provenance |-> [generated_by |-> "archivist",
                            generated_at |-> 0,
                            generation_method |-> "manual",
                            human_review_status |-> "approved"]] }

SegmentIds == {SynthId(i) : i \in 0..(MaxSegs - 1)} \cup {"seg_2", "seg_9"}

\* ------------------------------------------------------------- state
VARIABLES
  state,              \* useState<AnalysisState>
  item,               \* useState<ArchivalAudioItem | null>
  error,              \* useState<string | null>
  selectedSegmentId,  \* useState<string | null>
  editingSegmentId,   \* useState<string | null>
  activeTab,          \* useState<'desc' | 'tech' | 'admin' | 'struct'>
  isNarrating,        \* useState(false)
  narration,          \* the playNarrative invocations past the guard, in order
  pipelines,          \* the processBlob invocations, in the order they started
  lastOp,             \* history: the store operation the last step applied
  nEdits              \* history: edits of the record so far

vars ==
  <<state, item, error, selectedSegmentId, editingSegmentId, activeTab,
    isNarrating, narration, pipelines, lastOp, nEdits>>

ui == <<selectedSegmentId, editingSegmentId, activeTab>>
narr == <<isNarrating, narration>>

NoOp == [op |-> "none"]

Segments == IF item = NullItem THEN <<>> ELSE item.structural.segments

\* fileName.split('.')[0] || 'Archival Record'
TitleOf(k) == "take" \o ToString(k)

\* fileName.split('.').pop()?.toUpperCase() || 'WAV'
ContainerOf(k) == "WAV"

\* initialItem; `ingest` is a history field: the processBlob invocation
\* that built the record (the source draws a random identifier instead).
InitialItem(p, file) ==
  [ingest |-> p,
   descriptive |->
     [title |-> TitleOf(p),
      description |-> "Awaiting semantic abstract...",
      temporal_index |-> "",
      transcript |-> "",
      scopeAndContent |-> "",
      findingAids |-> "",
      rights |-> "In copyright"],
   technical |->
     [container_format |-> ContainerOf(p),
      codec |-> "PCM",
      duration_seconds |-> file.duration,
      file_size_bytes |-> file.size,
      checksum |-> file.sha,
      processing_notes |-> <<>>],
   administrative |->
     [rights_holder |-> "Preservation Institution",
      access_level |-> "staff"],
   structural |-> [segments |-> <<>>]]

Init ==
  /\ state = "IDLE"
  /\ item = NullItem
  /\ error = NULL
  /\ selectedSegmentId = NULL
  /\ editingSegmentId = NULL
  /\ activeTab = "desc"
  /\ isNarrating = FALSE
  /\ narration = <<>>
  /\ pipelines = <<>>
  /\ lastOp = NoOp
  /\ nEdits = 0

\* --------------------------------------------------------------- views
\* The upload view (and its file input) is rendered only in IDLE.
UploadView == state = "IDLE"

\* The record editor: state is COMPLETED or ERROR and no error is set.
EditorView == state \in {"COMPLETED", "ERROR"} /\ error = NULL

InFlight(p) == pipelines[p].pc # "done"

SetPc(p, pc) == [pipelines EXCEPT ![p].pc = pc]

\* processBlob goes on to its next collaborator call: `calls` (history)
\* counts the calls each invocation has issued
IssueCall(p, pc) ==
  [pipelines EXCEPT ![p].pc = pc, ![p].calls[pc] = @ + 1]

\* ------------------------------------------------------------ resetApp
\* Every in-flight processBlob keeps running; `stale` (history) marks the
\* ones a reset has happened after.
ResetApp ==
  /\ state' = "IDLE"
  /\ item' = NullItem
  /\ error' = NULL
  /\ selectedSegmentId' = NULL
  /\ editingSegmentId' = NULL
  /\ activeTab' = "desc"
  /\ pipelines' = [p \in 1..Len(pipelines) |->
                     IF InFlight(p) THEN [pipelines[p] EXCEPT !.stale = TRUE]
                     ELSE pipelines[p]]
  /\ lastOp' = NoOp
  /\ UNCHANGED <<narr, nEdits>>

\* ------------------------------------------------------- processBlob
\* handleFileUpload -> processBlob up to its first await (computeSHA256)
HandleFileUpload(file) ==
  /\ UploadView
  /\ file = FileOf(Len(pipelines) + 1)
  /\ Len(pipelines) < MaxIngests
  /\ state' = "COMPUTING_CHECKSUM"
  /\ error' = NULL
  /\ pipelines' = Append(pipelines,
                         [pc |-> "checksum", file |-> file, transcript |-> "",
                          stale |-> FALSE,
                          calls |-> [checksum |-> 1, transcribe |-> 0,
                                     analyze |-> 0]])
  /\ lastOp' = NoOp
  /\ UNCHANGED <<item, ui, narr, nEdits>>

\* computeSHA256 resolved: the object URL is made, the metadata load awaited
ChecksumResolved(p) ==
  /\ pipelines[p].pc = "checksum"
  /\ pipelines' = SetPc(p, "metadata")
  /\ lastOp' = NoOp
  /\ UNCHANGED <<state, item, error, ui, narr, nEdits>>

\* computeSHA256 rejected: the outer catch
ChecksumRejected(p) ==
  /\ pipelines[p].pc = "checksum"
  /\ error' = "Critical ingest error."
  /\ state' = "ERROR"
  /\ pipelines' = SetPc(p, "done")
  /\ lastOp' = NoOp
  /\ UNCHANGED <<item, ui, narr, nEdits>>

\* MetadataLoaded that starts the transcription before the record is built
MetadataLoaded_Late(p) ==
  /\ pipelines[p].pc = "metadata"
  /\ state' = "TRANSCRIBING"
  /\ pipelines' = IssueCall(p, "transcribe")
  /\ lastOp' = NoOp
  /\ UNCHANGED <<item, error, ui, narr, nEdits>>

\* onloadedmetadata: setItem(initialItem); setState(TRANSCRIBING)
MetadataLoaded(p) ==
  /\ pipelines[p].pc = "metadata"
  /\ item' = InitialItem(p, pipelines[p].file)
  /\ state' = "TRANSCRIBING"
  /\ pipelines' = IssueCall(p, "transcribe")
  /\ lastOp' = NoOp
  /\ UNCHANGED <<error, ui, narr, nEdits>>

\* transcribeAudio resolved with `transcript`; the FileReader is started
TranscribeResolved(p, transcript) ==
  /\ pipelines[p].pc = "transcribe"
  /\ item' = IF item = NullItem THEN NullItem
             ELSE [item EXCEPT !.descriptive.transcript = transcript,
                               !.descriptive.description = "Phasing semantic audit..."]
  /\ state' = "ANALYZING"
  /\ pipelines' = [pipelines EXCEPT ![p].pc = "reader", ![p].transcript = transcript]
  /\ lastOp' = NoOp
  /\ UNCHANGED <<error, ui, narr, nEdits>>

\* transcribeAudio threw Error(body || 'Transcription failed.'): the outer
\* catch logs it and reports its own message
TranscribeRejected(p, body) ==
  /\ pipelines[p].pc = "transcribe"
  /\ error' = "Critical ingest error."
  /\ state' = "ERROR"
  /\ pipelines' = SetPc(p, "done")
  /\ lastOp' = [op |-> "transcribeFailed", ingest |-> p,
                message |-> TranscribeErrorMessage(body)]
  /\ UNCHANGED <<item, ui, narr, nEdits>>

\* reader.onload up to its await: the /api/analyze request is sent
ReaderLoaded(p) ==
  /\ pipelines[p].pc = "reader"
  /\ pipelines' = IssueCall(p, "analyze")
  /\ lastOp' = NoOp
  /\ UNCHANGED <<state, item, error, ui, narr, nEdits>>

\* ApplyResult that builds the descriptive block anew instead of spreading
\* prev.descriptive
ApplyResult_ClearsTranscript(prev, result) ==
  IF prev = NullItem THEN NullItem
  ELSE [prev EXCEPT !.descriptive.temporal_index = result.temporal_index,
                    !.descriptive.description = result.description,
                    !.descriptive.scopeAndContent = result.temporal_index,
                    !.descriptive.findingAids = result.temporal_index,
                    !.descriptive.transcript = "",
                    !.structural.segments = ReplaceSegments(@, result)]

\* setItem(prev => prev ? {...prev, descriptive: {...}, structural: {...}} : null)
ApplyResult(prev, result) ==
  IF prev = NullItem THEN NullItem
  ELSE [prev EXCEPT !.descriptive.temporal_index = result.temporal_index,
                    !.descriptive.description = result.description,
                    !.descriptive.scopeAndContent = result.temporal_index,
                    !.descriptive.findingAids = result.temporal_index,
                    !.structural.segments = ReplaceSegments(@, result)]

\* AnalyzeResolved of a server that analyses whatever transcript it is sent
AnalyzeResolved_NoTranscriptCheck(p, parsed) ==
  /\ pipelines[p].pc = "analyze"
  /\ LET result == AnalyzeResponse(parsed, p)
     IN /\ item' = ApplyResult(item, result)
        /\ lastOp' = [op |-> "replaceAll", before |-> Segments,
                      result |-> result.segments, ingest |-> p,
                      parsed |-> parsed]
  /\ state' = "COMPLETED"
  /\ pipelines' = SetPc(p, "done")
  /\ UNCHANGED <<error, ui, narr, nEdits>>

\* suggestArchivalSegments resolved; /api/analyze answers 200 only for a
\* non-empty transcript.  `now` is the server's clock, here the ingest number.
AnalyzeResolved(p, parsed) ==
  /\ pipelines[p].pc = "analyze"
  /\ pipelines[p].transcript # ""
  /\ LET result == AnalyzeResponse(parsed, p)
     IN /\ item' = ApplyResult(item, result)
        /\ lastOp' = [op |-> "replaceAll", before |-> Segments,
                      result |-> result.segments, ingest |-> p,
                      parsed |-> parsed]
  /\ state' = "COMPLETED"
  /\ pipelines' = SetPc(p, "done")
  /\ UNCHANGED <<error, ui, narr, nEdits>>

\* SegmentationError that reports the outer catch's message
SegmentationError_Generic(message) == "Critical ingest error."

\* `Segmentation failed: ${err.message}`
SegmentationError(message) == "Segmentation failed: " \o message

\* suggestArchivalSegments threw: the inner catch
AnalyzeRejected(p, body) ==
  /\ pipelines[p].pc = "analyze"
  /\ body \in AnalyzeFailureBodies(pipelines[p].transcript)
  /\ error' = SegmentationError(AnalyzeErrorMessage(body))
  /\ state' = "ERROR"
  /\ pipelines' = SetPc(p, "done")
  /\ lastOp' = [op |-> "analyzeFailed", ingest |-> p, body |-> body,
                before |-> Segments]
  /\ UNCHANGED <<item, ui, narr, nEdits>>

\* ------------------------------------------------------ the record editor
HasSegment(id) == \E i \in 1..Len(Segments) : Segments[i].id = id

\* onSelectSegment of the timeline, onClick of a segment card
SelectSegment(id) ==
  /\ EditorView
  /\ HasSegment(id)
  /\ selectedSegmentId' = id
  /\ lastOp' = NoOp
  /\ UNCHANGED <<state, item, error, editingSegmentId, activeTab, narr, pipelines, nEdits>>

\* the tab buttons
SetActiveTab(tab) ==
  /\ EditorView
  /\ activeTab' = tab
  /\ lastOp' = NoOp
  /\ UNCHANGED <<state, item, error, selectedSegmentId, editingSegmentId, narr,
                 pipelines, nEdits>>

\* ADJUST_TIMELINE of a segment card (stopPropagation: no selection)
AdjustTimeline(id) ==
  /\ EditorView
  /\ activeTab = "struct"
  /\ HasSegment(id)
  /\ editingSegmentId' = id
  /\ lastOp' = NoOp
  /\ UNCHANGED <<state, item, error, selectedSegmentId, activeTab, narr, pipelines, nEdits>>

\* COMMIT AUDIT of the card being edited; the click bubbles to the card
CommitAudit ==
  /\ EditorView
  /\ activeTab = "struct"
  /\ editingSegmentId # NULL
  /\ HasSegment(editingSegmentId)
  /\ editingSegmentId' = NULL
  /\ selectedSegmentId' = editingSegmentId
  /\ lastOp' = NoOp
  /\ UNCHANGED <<state, item, error, activeTab, narr, pipelines, nEdits>>

\* setItem(prev => prev ? {...prev, structural: {segments: ...}} : null)
UpdateSegment(prev, segId, updates) ==
  IF prev = NullItem THEN NullItem
  ELSE [prev EXCEPT !.structural.segments = UpdateSegments(@, segId, updates)]

\* onChange of the Class select and of the In/Out inputs of the card being
\* edited: fires with a value that differs from the one shown
EditSegment(segId, updates) ==
  /\ EditorView
  /\ activeTab = "struct"
  /\ editingSegmentId = segId
  /\ nEdits < MaxEdits
  /\ updates \in UIPatches
  /\ \E i \in 1..Len(Segments) :
       /\ Segments[i].id = segId
       /\ \E f \in DOMAIN updates : Segments[i][f] # updates[f]
  /\ item' = UpdateSegment(item, segId, updates)
  /\ lastOp' = [op |-> "updateSegment", before |-> Segments, segId |-> segId,
                updates |-> updates]
  /\ nEdits' = nEdits + 1
  /\ UNCHANGED <<state, error, ui, narr, pipelines>>

DescKeys == {"title", "description"}
DescValues == {"", "Kitchen session, 1978"}

\* updateDesc(key, val): the inputs of the Descriptive tab
UpdateDesc(key, val) ==
  /\ EditorView
  /\ activeTab = "desc"
  /\ item # NullItem
  /\ nEdits < MaxEdits
  /\ item.descriptive[key] # val
  /\ item' = [item EXCEPT !.descriptive[key] = val]
  /\ lastOp' = NoOp
  /\ nEdits' = nEdits + 1
  /\ UNCHANGED <<state, error, ui, narr, pipelines>>

\* ------------------------------------------------------- playNarrative
\* Each invocation that gets past the guard is an entry of `narration`:
\* "synthesize" while generateArchivalNarrative and the decoding are awaited,
\* "playing" from source.start() to onended, then "done".
Synthesizing(n) == narration[n] = "synthesize"

\* PlayNarrative without the isNarrating test of the guard (and with the
\* button left enabled)
PlayNarrative_NoGuard ==
  /\ EditorView
  /\ activeTab = "desc"
  /\ item # NullItem
  /\ item.descriptive.description # ""
  /\ Len(narration) < MaxNarrations
  /\ isNarrating' = TRUE
  /\ narration' = Append(narration, "synthesize")
  /\ lastOp' = NoOp
  /\ UNCHANGED <<state, item, error, ui, pipelines, nEdits>>

\* SYNTHESIZE SPEECH (disabled while isNarrating): playNarrative up to the
\* await of generateArchivalNarrative
PlayNarrative ==
  /\ EditorView
  /\ activeTab = "desc"
  /\ item # NullItem
  /\ item.descriptive.description # ""
  /\ ~isNarrating
  /\ Len(narration) < MaxNarrations
  /\ isNarrating' = TRUE
  /\ narration' = Append(narration, "synthesize")
  /\ lastOp' = NoOp
  /\ UNCHANGED <<state, item, error, ui, pipelines, nEdits>>

\* the audio arrived and was decoded: source.start()
NarrationStarted(n) ==
  /\ Synthesizing(n)
  /\ narration' = [narration EXCEPT ![n] = "playing"]
  /\ lastOp' = NoOp
  /\ UNCHANGED <<state, item, error, ui, isNarrating, pipelines, nEdits>>

\* NarrationFailed that reports the failure the way processBlob does
NarrationFailed_Reports(n) ==
  /\ Synthesizing(n)
  /\ narration' = [narration EXCEPT ![n] = "done"]
  /\ isNarrating' = FALSE
  /\ error' = "Narration failed."
  /\ state' = "ERROR"
  /\ lastOp' = [op |-> "narrationFailed", narration |-> n]
  /\ UNCHANGED <<item, ui, pipelines, nEdits>>

\* generateArchivalNarrative, decodeBase64 or decodeAudioBuffer threw: catch
NarrationFailed(n) ==
  /\ Synthesizing(n)
  /\ narration' = [narration EXCEPT ![n] = "done"]
  /\ isNarrating' = FALSE
  /\ lastOp' = [op |-> "narrationFailed", narration |-> n]
  /\ UNCHANGED <<state, item, error, ui, pipelines, nEdits>>

\* source.onended
NarrationEnded(n) ==
  /\ narration[n] = "playing"
  /\ narration' = [narration EXCEPT ![n] = "done"]
  /\ isNarrating' = FALSE
  /\ lastOp' = NoOp
  /\ UNCHANGED <<state, item, error, ui, pipelines, nEdits>>

\* ------------------------------------------------------- specification
\* Spec leaves playNarrative out: its steps read the record and write only
\* isNarrating and narration.
Ingests == 1..Len(pipelines)

\* The ingest pipeline and the record editor
Next ==
  \/ ResetApp
  \/ \E file \in {FileOf(k) : k \in 1..MaxIngests} : HandleFileUpload(file)
  \/ \E p \in Ingests : ChecksumResolved(p)
  \/ \E p \in Ingests : ChecksumRejected(p)
  \/ \E p \in Ingests : MetadataLoaded(p)
  \/ \E p \in Ingests, transcript \in Transcripts : TranscribeResolved(p, transcript)
  \/ \E p \in Ingests, body \in TranscribeFailureBodies : TranscribeRejected(p, body)
  \/ \E p \in Ingests : ReaderLoaded(p)
  \/ \E p \in Ingests, parsed \in ParsedResponses : AnalyzeResolved(p, parsed)
  \/ \E p \in Ingests, body \in AnalyzeFailureBodies("") \cup AnalyzeFailureBodies("t") :
       AnalyzeRejected(p, body)
  \/ \E id \in SegmentIds : SelectSegment(id)
  \/ \E tab \in Tabs : SetActiveTab(tab)
  \/ \E id \in SegmentIds : AdjustTimeline(id)
  \/ CommitAudit
  \/ \E id \in SegmentIds, updates \in UIPatches : EditSegment(id, updates)
  \/ \E key \in DescKeys, val \in DescValues : UpdateDesc(key, val)

Spec == Init /\ [][Next]_vars

\* The ingest pipeline alone: uploads, resets and the steps of processBlob
IngestNext ==
  \/ ResetApp
  \/ \E file \in {FileOf(k) : k \in 1..MaxIngests} : HandleFileUpload(file)
  \/ \E p \in Ingests : ChecksumResolved(p)
  \/ \E p \in Ingests : ChecksumRejected(p)
  \/ \E p \in Ingests : MetadataLoaded(p)
  \/ \E p \in Ingests, transcript \in Transcripts : TranscribeResolved(p, transcript)
  \/ \E p \in Ingests, body \in TranscribeFailureBodies : TranscribeRejected(p, body)
  \/ \E p \in Ingests : ReaderLoaded(p)
  \/ \E p \in Ingests, parsed \in ParsedResponses : AnalyzeResolved(p, parsed)
  \/ \E p \in Ingests, body \in AnalyzeFailureBodies("") \cup AnalyzeFailureBodies("t") :
       AnalyzeRejected(p, body)

IngestSpec == Init /\ [][IngestNext]_vars

\* ------------------------------------------- one ingest, never reset
\* The audio element reports an error instead of loadedmetadata: the promise
\* processBlob awaits has no onerror and never settles, so the invocation
\* stays where it is.
MetadataFailed(p) ==
  /\ pipelines[p].pc = "metadata"
  /\ pipelines' = SetPc(p, "hung")
  /\ lastOp' = NoOp
  /\ UNCHANGED <<state, item, error, ui, narr, nEdits>>

\* FileReader reports an error instead of load: only reader.onload is set
\* and readAsDataURL does not throw, so neither catch runs.
ReaderFailed(p) ==
  /\ pipelines[p].pc = "reader"
  /\ pipelines' = SetPc(p, "hung")
  /\ lastOp' = NoOp
  /\ UNCHANGED <<state, item, error, ui, narr, nEdits>>

\* The outcomes of the five collaborator operations of processBlob
ChecksumOutcome == \E p \in Ingests : ChecksumResolved(p) \/ ChecksumRejected(p)

MetadataOutcome == \E p \in Ingests : MetadataLoaded(p) \/ MetadataFailed(p)

TranscribeOutcome ==
  \/ \E p \in Ingests, transcript \in Transcripts : TranscribeResolved(p, transcript)
  \/ \E p \in Ingests, body \in TranscribeFailureBodies : TranscribeRejected(p, body)

ReaderOutcome == \E p \in Ingests : ReaderLoaded(p) \/ ReaderFailed(p)

AnalyzeOutcome ==
  \/ \E p \in Ingests, parsed \in ParsedResponses : AnalyzeResolved(p, parsed)
  \/ \E p \in Ingests, body \in AnalyzeFailureBodies("") \cup AnalyzeFailureBodies("t") :
       AnalyzeRejected(p, body)

\* A session in which RESET ENGINE is never clicked: one upload, the steps
\* of its processBlob with both outcomes of every collaborator, the editor.
OneIngestNext ==
  \/ \E file \in {FileOf(k) : k \in 1..MaxIngests} : HandleFileUpload(file)
  \/ \E p \in Ingests : ChecksumResolved(p)
  \/ \E p \in Ingests : ChecksumRejected(p)
  \/ \E p \in Ingests : MetadataLoaded(p)
  \/ \E p \in Ingests : MetadataFailed(p)
  \/ \E p \in Ingests, transcript \in Transcripts : TranscribeResolved(p, transcript)
  \/ \E p \in Ingests, body \in TranscribeFailureBodies : TranscribeRejected(p, body)
  \/ \E p \in Ingests : ReaderLoaded(p)
  \/ \E p \in Ingests : ReaderFailed(p)
  \/ \E p \in Ingests, parsed \in ParsedResponses : AnalyzeResolved(p, parsed)
  \/ \E p \in Ingests, body \in AnalyzeFailureBodies("") \cup AnalyzeFailureBodies("t") :
       AnalyzeRejected(p, body)
  \/ \E id \in SegmentIds : SelectSegment(id)
  \/ \E tab \in Tabs : SetActiveTab(tab)
  \/ \E id \in SegmentIds : AdjustTimeline(id)
  \/ CommitAudit
  \/ \E id \in SegmentIds, updates \in UIPatches : EditSegment(id, updates)
  \/ \E key \in DescKeys, val \in DescValues : UpdateDesc(key, val)

OneIngestSpec == Init /\ [][OneIngestNext]_vars

\* Every collaborator operation that is pending eventually yields one of its
\* outcomes (the event loop runs every callback that becomes ready).
FairIngestSpec ==
  /\ OneIngestSpec
  /\ WF_vars(ChecksumOutcome)
  /\ WF_vars(MetadataOutcome)
  /\ WF_vars(TranscribeOutcome)
  /\ WF_vars(ReaderOutcome)
  /\ WF_vars(AnalyzeOutcome)

\* ------------------------------------------------- the store on its own
\* updateSegment as a function: called with any id and any
\* Partial<StructuralSegment>, on the record a completed ingest left.
\* The record after one ingest that ran to COMPLETED on response `parsed`.
CompletedItem(parsed) ==
  ApplyResult([InitialItem(1, FileOf(1)) EXCEPT
                 !.descriptive.transcript = "welcome to the session",
                 !.descriptive.description = "Phasing semantic audit..."],
              AnalyzeResponse(parsed, 1))

StoreInit ==
  /\ state = "COMPLETED"
  /\ item \in {CompletedItem(parsed) : parsed \in ParsedResponses}
  /\ error = NULL
  /\ selectedSegmentId = NULL
  /\ editingSegmentId = NULL
  /\ activeTab = "desc"
  /\ isNarrating = FALSE
  /\ narration = <<>>
  /\ pipelines = <<[pc |-> "done", file |-> FileOf(1),
                    transcript |-> "welcome to the session", stale |-> FALSE,
                    calls |-> [checksum |-> 1, transcribe |-> 1,
                               analyze |-> 1]]>>
  /\ lastOp = NoOp
  /\ nEdits = 0

UpdateSegmentCall(segId, updates) ==
  /\ nEdits < MaxStoreCalls
  /\ item' = UpdateSegment(item, segId, updates)
  /\ lastOp' = [op |-> "updateSegment", before |-> Segments, segId |-> segId,
                updates |-> updates]
  /\ nEdits' = nEdits + 1
  /\ UNCHANGED <<state, error, ui, narr, pipelines>>

StoreNext ==
  \E segId \in SegmentIds \cup {"nonexistent"}, updates \in ApiPatches :
    UpdateSegmentCall(segId, updates)

StoreSpec == StoreInit /\ [][StoreNext]_vars

\* ------------------------------------------------------------ exportCSV
\* A text is a sequence of characters; a run of characters none of which is
\* a comma, a double quote or a newline may stand as one element.
ARCHIVAL_CSV_HEADERS ==
  <<"descriptor", "contributor", "coverage", "creator", "date",
     "IE_format", "description", "identifier", "language", "publisher",
     "relation", "rights", "source", "subject", "title", "type",
     "FullFolderOrFilePath", "isadg.identifier", "isadg.accessionNumber",
     "isadg.title", "isadg.levelOfDescription", "isadg.extentAndMedium",
     "isadg.repository", "isadg.archivalHistory", "isadg.acquisition",
     "isadg.scopeAndContent", "isadg.appraisal", "isadg.accruals",
     "isadg.arrangement", "isadg.accessConditions",
     "isadg.reproductionConditions", "isadg.language", "isadg.script",
     "isadg.languageNote", "isadg.findingAids",
     "isadg.locationOfOriginals", "isadg.locationOfCopies",
     "isadg.relatedUnitsOfDescription", "isadg.publicationNote",
     "isadg.digitalObjectURI", "isadg.generalNote", "subjectAccessPoints",
     "placeAccessPoints", "nameAccessPoints", "isadg.genreAccessPoints",
     "isadg.descriptionIdentifier", "isadg.institutionIdentifier",
     "isadg.descriptionStatus", "isadg.levelofDetail",
     "isadg.revisionHistory", "isadg.languageOfDescription",
     "isadg.scriptOfDescription", "isadg.sources", "isadg.archivistNote",
     "isadg.publicationStatus", "isadg.physicalObjectName",
     "isadg.physicalObjectLocation", "isadg.physicalObjectType",
     "isadg.alternativeIdentifier", "isadg.alternativeIdentifierLabels",
     "eventDates", "eventTypes", "eventStartDates", "eventEndDates",
     "isadg.eventActors", "isadg.eventActorHistories", "isadg.culture",
     "atom.legacyId", "atom.parentId", "atom.qubitParentSlug",
     "repository", "dc.coverage", "dc.language", "dc.subject",
     "dcterms.isPartOf", "dc.rights", "dc.format", "dc.contributor",
     "dc.description", "dc.creator", "dc.publisher", "dc.title", "dc.type",
     "dc.identifier", "dc.date", "parts", "md5Checksum", "technicalNotes",
     "Notes", "isadg.physicalCharacteristics", "isadg.rules",
     "isadg.alternativeTitle" >>

SpecialChars == {",", "\"", "\n"}

Alphabet == {"a"} \cup SpecialChars

Texts == SeqsUpTo(Alphabet, MaxLen)

\* the text of a string that holds no special character
AsText(str) == IF str = "" THEN <<>> ELSE <<str>>

\* val.includes(',') || val.includes('"') || val.includes('\n')
NeedsQuoting(val) == \E i \in 1..Len(val) : val[i] \in SpecialChars

\* DoubleQuotes that leaves the quotes single
DoubleQuotes_Single(val) == val

\* val.replace(/"/g, '""')
RECURSIVE DoubleQuotes(_)
DoubleQuotes(val) ==
  IF val = <<>> THEN <<>>
  ELSE (IF val[1] = "\"" THEN <<"\"", "\"">> ELSE <<val[1]>>)
         \o DoubleQuotes(Tail(val))

\* the value a cell of the row is returned as
CsvField(val) ==
  IF NeedsQuoting(val) THEN <<"\"">> \o DoubleQuotes(val) \o <<"\"">> ELSE val

\* The field of the model's descriptive record a header names
DescKeyOf(h) ==
  IF h = "isadg.scopeAndContent" THEN "scopeAndContent"
  ELSE IF h = "isadg.findingAids" THEN "findingAids" ELSE h

\* (metadata as any)[h] || ""
CsvValue(metadata, h) ==
  IF DescKeyOf(h) \in DOMAIN metadata THEN metadata[DescKeyOf(h)] ELSE <<>>

\* Array.prototype.join (by halves, to keep the recursion shallow)
RECURSIVE Join(_, _)
Join(texts, sep) ==
  IF texts = <<>> THEN <<>>
  ELSE IF Len(texts) = 1 THEN texts[1]
  ELSE LET half == Len(texts) \div 2
       IN Join(SubSeq(texts, 1, half), sep) \o <<sep>>
            \o Join(SubSeq(texts, half + 1, Len(texts)), sep)

\* ARCHIVAL_CSV_HEADERS.map(h => {...})
CsvCells(metadata) ==
  [i \in 1..Len(ARCHIVAL_CSV_HEADERS) |->
     CsvField(CsvValue(metadata, ARCHIVAL_CSV_HEADERS[i]))]

\* HeaderRow built from the keys the record holds
HeaderRow_FromRecord(metadata) ==
  Join([i \in 1..Len(ARCHIVAL_CSV_HEADERS) |->
          IF DescKeyOf(ARCHIVAL_CSV_HEADERS[i]) \in DOMAIN metadata
               /\ metadata[DescKeyOf(ARCHIVAL_CSV_HEADERS[i])] = <<>>
            THEN <<>> ELSE <<ARCHIVAL_CSV_HEADERS[i]>>], ",")

\* ARCHIVAL_CSV_HEADERS.join(',')
HeaderRow(metadata) ==
  Join([i \in 1..Len(ARCHIVAL_CSV_HEADERS) |-> <<ARCHIVAL_CSV_HEADERS[i]>>], ",")

\* EXPORT CSV (TEMPLATE), shown for a record in state COMPLETED:
\* csvContent = header + '\n' + row.  lastOp (history) keeps the file written.
ExportCSV ==
  /\ item # NullItem
  /\ state = "COMPLETED"
  /\ lastOp' = [op |-> "exportCSV",
                header |-> HeaderRow(item.descriptive),
                cells |-> CsvCells(item.descriptive),
                row |-> Join(CsvCells(item.descriptive), ",")]
  /\ UNCHANGED <<state, item, error, ui, narr, pipelines, nEdits>>

\* The index /api/analyze builds for two segments, as a text
IndexTexts ==
  {<<>>,
   <<"0.00-1.00: spoken introduction", "\n",
     "1.00-2.00: Segment summary unavailable.">>}

\* A completed record whose descriptive values are texts
CsvItem(title, description, index) ==
  [CompletedItem([description |-> None, temporal_index |-> None, segments |-> <<>>])
     EXCEPT !.descriptive =
       [title |-> title,
        description |-> description,
        temporal_index |-> index,
        transcript |-> AsText("welcome to the session"),
        scopeAndContent |-> index,
        findingAids |-> index,
        rights |-> AsText("In copyright")]]

CsvInit ==
  /\ state = "COMPLETED"
  /\ item \in {CsvItem(title, description, index) :
                 title \in Texts,
                 description \in {<<>>, <<"a", ",", "a", "\"">>},
                 index \in IndexTexts}
  /\ error = NULL
  /\ selectedSegmentId = NULL
  /\ editingSegmentId = NULL
  /\ activeTab = "desc"
  /\ isNarrating = FALSE
  /\ narration = <<>>
  /\ pipelines = <<[pc |-> "done", file |-> FileOf(1),
                    transcript |-> "welcome to the session", stale |-> FALSE,
                    calls |-> [checksum |-> 1, transcribe |-> 1,
                               analyze |-> 1]]>>
  /\ lastOp = NoOp
  /\ nEdits = 0

CsvNext == ExportCSV

CsvSpec == CsvInit /\ [][CsvNext]_vars

\* ------------------------------------------- the analyze endpoint alone
\* /api/analyze as a function of the model's response, applied by the one
\* ingest that has sent its request.  The responses range over segments with
\* any field missing or empty, ids the synthesized ones collide with, and
\* types outside SegmentType.
BlankRaw ==
  [id |-> None, start_time |-> None, end_time |-> None, type |-> None,
   summary |-> None, confidence |-> None, alternatives |-> None,
   notes |-> None, segment_metadata |-> None]

WideRawSegs ==
  RawSegs \cup
  { BlankRaw,
    [BlankRaw EXCEPT !.id = Some(""), !.type = Some(""), !.summary = Some("")],
    [BlankRaw EXCEPT !.id = Some("seg_1"), !.type = Some("Song"),
                     !.start_time = Some(0), !.end_time = Some(2)],
    [BlankRaw EXCEPT !.type = Some("Silence"), !.confidence = Some(0),
                     !.start_time = Some(2), !.end_time = Some(1)],
    [BlankRaw EXCEPT !.type = Some("Other"), !.notes = Some("")],
    [BlankRaw EXCEPT !.type = Some("Chant"), !.segment_metadata = Some(EmptyMeta)],
    [BlankRaw EXCEPT !.id = Some("a1"), !.type = Some("Tune"),
                     !.notes = Some("faint"), !.alternatives = Some(<<>>)],
    [BlankRaw EXCEPT !.id = Some("a1"), !.type = Some("Speech"),
                     !.confidence = Some(100)] }

WideResponses ==
  { [description |-> None, temporal_index |-> None, segments |-> segs] :
      segs \in SeqsUpTo(WideRawSegs, MaxSegs) }

\* The state in which ingest 1 has sent its /api/analyze request
AnalyzeInit ==
  /\ state = "ANALYZING"
  /\ item = [InitialItem(1, FileOf(1)) EXCEPT
               !.descriptive.transcript = "welcome to the session",
               !.descriptive.description = "Phasing semantic audit..."]
  /\ error = NULL
  /\ selectedSegmentId = NULL
  /\ editingSegmentId = NULL
  /\ activeTab = "desc"
  /\ isNarrating = FALSE
  /\ narration = <<>>
  /\ pipelines = <<[pc |-> "analyze", file |-> FileOf(1),
                    transcript |-> "welcome to the session", stale |-> FALSE,
                    calls |-> [checksum |-> 1, transcribe |-> 1,
                               analyze |-> 1]]>>
  /\ lastOp = NoOp
  /\ nEdits = 0

AnalyzeNext == \E parsed \in WideResponses : AnalyzeResolved(1, parsed)

AnalyzeSpec == AnalyzeInit /\ [][AnalyzeNext]_vars

\* ------------------------------------------- narration beside the pipeline
\* The ingest pipeline, resets, the Descriptive tab and playNarrative.  Of
\* the inputs it takes the ones playNarrative's guard tells apart: a model
\* response without segments, one failure body per way of failing, the
\* Descriptive tab and one other, and edits of the description.
NarrationResponses ==
  {r \in ParsedResponses : r.segments = <<>> /\ r.description # None}

Narrations == 1..Len(narration)

NarrationNext ==
  \/ ResetApp
  \/ \E file \in {FileOf(k) : k \in 1..MaxIngests} : HandleFileUpload(file)
  \/ \E p \in Ingests : ChecksumResolved(p)
  \/ \E p \in Ingests : ChecksumRejected(p)
  \/ \E p \in Ingests : MetadataLoaded(p)
  \/ \E p \in Ingests, transcript \in Transcripts : TranscribeResolved(p, transcript)
  \/ \E p \in Ingests, body \in {"Server transcription error."} : TranscribeRejected(p, body)
  \/ \E p \in Ingests : ReaderLoaded(p)
  \/ \E p \in Ingests, parsed \in NarrationResponses : AnalyzeResolved(p, parsed)
  \/ \E p \in Ingests, body \in {"Transcript required.", "Gemini analysis error."} :
       AnalyzeRejected(p, body)
  \/ \E tab \in {"desc", "struct"} : SetActiveTab(tab)
  \/ \E key \in {"description"}, val \in DescValues : UpdateDesc(key, val)
  \/ PlayNarrative
  \/ \E n \in Narrations : NarrationStarted(n)
  \/ \E n \in Narrations : NarrationFailed(n)
  \/ \E n \in Narrations : NarrationEnded(n)

NarrationSpec == Init /\ [][NarrationNext]_vars

\* ================================================================ claims
Edited(seg) == seg.provenance.human_review_status = "edited"

Bijections(n) ==
  {f \in [1..n -> 1..n] : \A i \in 1..n : \E j \in 1..n : f[j] = i}

UpdateApplied == lastOp.op = "updateSegment" /\ item # NullItem

ReplaceApplied == lastOp.op = "replaceAll" /\ item # NullItem

\* The segments of the collection before the call that the call targets
Targeted == {i \in 1..Len(lastOp.before) : lastOp.before[i].id = lastOp.segId}

\* The bijection f places every segment of the collection before the call in
\* the collection after it, the ones the call does not target unchanged.
Tracks(f) ==
  /\ Len(Segments) = Len(lastOp.before)
  /\ \A i \in 1..Len(lastOp.before) :
       i \notin Targeted => Segments[f[i]] = lastOp.before[i]

\* C1: in every reachable state the canonical segment collection is sorted
\* by start_time ascending, also when the provider's segments arrive unsorted.
C1_SortedAlways == IsSorted(Segments)

\* C2: a step of a processBlob invocation that a resetApp has happened after
\* (a completion of its checksum, metadata, transcription, file read or
\* segmentation call) changes none of state, error and item.
C2_StaleCompletionIgnored ==
  [][(\E p \in 1..Len(pipelines) :
        pipelines[p].stale /\ pipelines'[p].pc # pipelines[p].pc)
       => UNCHANGED <<state, error, item>>]_vars

\* C3: at most one processBlob invocation is in flight (has not reached
\* COMPLETED or ERROR) in every reachable state.
C3_OneIngestInFlight ==
  Cardinality({p \in 1..Len(pipelines) : InFlight(p)}) <= 1

\* C4: no segmentation result is applied to a record that holds a segment
\* the user has edited.
C4_NoReplaceAfterEdit ==
  ~(ReplaceApplied /\ \E i \in 1..Len(lastOp.before) : Edited(lastOp.before[i]))

\* C5: after updateSegment every segment the call targets has review status
\* 'edited', whatever its status was (unreviewed, approved, edited) and
\* whatever the patch holds, a provenance object included.
C5_TargetEdited ==
  UpdateApplied =>
    /\ \E f \in Bijections(Len(lastOp.before)) : Tracks(f)
    /\ \A f \in Bijections(Len(lastOp.before)) :
         Tracks(f) => \A i \in Targeted : Edited(Segments[f[i]])
    /\ \A i \in 1..Len(lastOp.before), st \in HumanReviewStatus :
         Edited(PatchSegment(
                  [lastOp.before[i] EXCEPT !.provenance.human_review_status = st],
                  lastOp.updates))

\* C5 witness: a segment whose status was already 'edited' is targeted with a
\* patch that carries a provenance object of status 'approved'
C5_Witness ==
  /\ UpdateApplied
  /\ "provenance" \in DOMAIN lastOp.updates
  /\ \E i \in Targeted : Edited(lastOp.before[i])
  /\ lastOp.updates.provenance.human_review_status = "approved"

\* C6: updateSegment with an id that matches no segment leaves the collection
\* as it was: same segments, same values, same order.
C6_UnknownIdNoOp ==
  (UpdateApplied /\ Targeted = {}) => Segments = lastOp.before

\* C7: updateSegment leaves the id, confidence and alternatives of the
\* targeted segment as they were, for every patch.
C7_IdConfidenceAlternativesKept ==
  UpdateApplied =>
    \A f \in Bijections(Len(lastOp.before)) :
      Tracks(f) =>
        \A i \in Targeted :
          /\ Segments[f[i]].id = lastOp.before[i].id
          /\ Segments[f[i]].confidence = lastOp.before[i].confidence
          /\ Segments[f[i]].alternatives = lastOp.before[i].alternatives

\* C8: updateSegment leaves generated_by, generated_at and generation_method
\* of the targeted segment's provenance as they were, for every patch, one
\* that carries a provenance object included.
C8_ProvenanceKept ==
  UpdateApplied =>
    /\ \E f \in Bijections(Len(lastOp.before)) : Tracks(f)
    /\ \A f \in Bijections(Len(lastOp.before)) :
         Tracks(f) =>
           \A i \in Targeted :
             /\ Segments[f[i]].provenance.generated_by
                  = lastOp.before[i].provenance.generated_by
             /\ Segments[f[i]].provenance.generated_at
                  = lastOp.before[i].provenance.generated_at
             /\ Segments[f[i]].provenance.generation_method
                  = lastOp.before[i].provenance.generation_method
             /\ DOMAIN Segments[f[i]].provenance
                  = DOMAIN lastOp.before[i].provenance

\* C8 witness: a patch carrying a provenance object of another generator has
\* been applied to a segment
C8_Witness ==
  /\ UpdateApplied
  /\ "provenance" \in DOMAIN lastOp.updates
  /\ Targeted # {}
  /\ \A i \in Targeted :
       lastOp.updates.provenance.generated_by # lastOp.before[i].provenance.generated_by

\* C9: updateSegment leaves the number of segments and every segment of
\* another id unchanged in all fields.
C9_OthersUntouched ==
  UpdateApplied =>
    /\ Len(Segments) = Len(lastOp.before)
    /\ \E f \in Bijections(Len(lastOp.before)) : Tracks(f)

\* C9 witness: of two segments one was targeted and changed, and the sort
\* moved the other
C9_Witness ==
  /\ UpdateApplied
  /\ Len(lastOp.before) = 2
  /\ Cardinality(Targeted) = 1
  /\ \E i \in 1..2 : i \notin Targeted /\ Segments[i] # lastOp.before[i]
  /\ \E i \in 1..2 : ~Edited(Segments[i])

\* C10: a segmentation result that is applied to the record makes the
\* collection exactly the result's segments, each with the review status the
\* analyze endpoint gave it, 'unreviewed'.
C10_ReplaceIsExact ==
  ReplaceApplied =>
    /\ Segments = lastOp.result
    /\ \A i \in 1..Len(Segments) :
         Segments[i].provenance.human_review_status = "unreviewed"

\* C10 witness: a result was applied over a collection that held other
\* segments, an edited one among them
C10_Witness ==
  /\ ReplaceApplied
  /\ lastOp.result # <<>>
  /\ lastOp.before # <<>>
  /\ lastOp.before # lastOp.result
  /\ \E i \in 1..Len(lastOp.before) : Edited(lastOp.before[i])

\* ------------------------------------------------ failures of the pipeline
TranscribeFailed == lastOp.op = "transcribeFailed"

AnalyzeFailed == lastOp.op = "analyzeFailed"

\* C11: when the transcription call fails with provider message m, the
\* pipeline ends in state ERROR and the error shown is m verbatim.
C11_TranscriptionErrorVerbatim ==
  TranscribeFailed => (state = "ERROR" /\ error = lastOp.message)

\* C12: when the segmentation call fails with message m, the state is ERROR,
\* the error is 'Segmentation failed: ' followed by m ('Analysis failed.' for
\* an empty body), the segment collection is as it was before the failure and
\* holds no segment of the failed ingest.
C12_SegmentationFailureReported ==
  AnalyzeFailed =>
    /\ state = "ERROR"
    /\ error = "Segmentation failed: "
                 \o (IF lastOp.body = "" THEN "Analysis failed." ELSE lastOp.body)
    /\ Segments = lastOp.before
    /\ \A i \in 1..Len(Segments) :
         Segments[i].provenance.generated_at # lastOp.ingest

\* C12 witness: the segmentation of the ingest that built the record failed
\* with an empty response body
C12_Witness ==
  /\ AnalyzeFailed
  /\ lastOp.body = ""
  /\ item # NullItem
  /\ item.ingest = lastOp.ingest
  /\ item.descriptive.transcript # ""

\* C13: after a transcription failure the record holds the checksum computed
\* for that ingest; after a segmentation failure it holds that ingest's
\* transcript and checksum.
C13_EarlierFieldsRetained ==
  /\ TranscribeFailed =>
       /\ item # NullItem
       /\ item.technical.checksum = pipelines[lastOp.ingest].file.sha
  /\ AnalyzeFailed =>
       /\ item # NullItem
       /\ item.descriptive.transcript = pipelines[lastOp.ingest].transcript
       /\ item.technical.checksum = pipelines[lastOp.ingest].file.sha

\* The collaborator calls invocation p has issued, before and after a step
Calls(p) == pipelines[p].calls
CallsAfter(p) == pipelines'[p].calls
CallKinds == {"checksum", "transcribe", "analyze"}

\* A step that issues a collaborator call
IssuesCall ==
  \/ Len(pipelines') > Len(pipelines)
  \/ \E p \in 1..Len(pipelines), c \in CallKinds : CallsAfter(p)[c] > Calls(p)[c]

\* C14: within one ingest each of checksum, transcription and segmentation
\* is invoked at most once, and no step taken in state ERROR issues a
\* collaborator call (the user's reset leaves ERROR first).
C14_NoAutomaticRetry ==
  [][/\ \A p \in 1..Len(pipelines'), c \in CallKinds : CallsAfter(p)[c] <= 1
     /\ state = "ERROR" => ~IssuesCall]_vars

\* ---------------------------------------------------------- narration
\* A step in which a narration request fails
NarrationFails ==
  \E n \in 1..Len(narration) : Synthesizing(n) /\ narration'[n] = "done"

\* C15: when a narration request fails, isNarrating is false afterwards and
\* error, the analysis state and the record are unchanged.
C15_NarrationFailureSilent ==
  [][NarrationFails => (isNarrating' = FALSE /\ UNCHANGED <<error, state, item>>)]_vars

\* C15 witness: a narration request has failed on a completed record
C15_Witness ==
  /\ lastOp.op = "narrationFailed"
  /\ ~isNarrating
  /\ state = "COMPLETED"
  /\ error = NULL
  /\ item # NullItem

InFlightNarrations == {n \in 1..Len(narration) : Synthesizing(n)}

\* C16: at most one narration request is in flight after every step, and no
\* step taken while isNarrating is true issues a synthesize call.
C16_OneNarrationInFlight ==
  [][/\ Cardinality({n \in 1..Len(narration') : narration'[n] = "synthesize"}) <= 1
     /\ isNarrating => Len(narration') = Len(narration)]_vars

\* C16 witness: a second narration request is in flight, after the first has
\* ended, while a later ingest is running
C16_Witness ==
  /\ Len(narration) = 2
  /\ InFlightNarrations = {2}
  /\ isNarrating
  /\ \E p \in 1..Len(pipelines) : InFlight(p)

\* ------------------------------------------------------- segment times
WithinRecording(seg) ==
  /\ 0 <= seg.start_time
  /\ seg.start_time < seg.end_time
  /\ seg.end_time <= item.technical.duration_seconds

\* C17: every segment of the collection, in every reachable state, satisfies
\* 0 <= start_time < end_time <= recording duration.
C17_TimesWithinRecording ==
  \A i \in 1..Len(Segments) : WithinRecording(Segments[i])

\* The time a patch leaves in a field of a segment
PatchedTime(seg, field) ==
  IF field \in DOMAIN lastOp.updates THEN lastOp.updates[field] ELSE seg[field]

\* C17 as amended: the segment times are stored as supplied, without bounds
\* validation.  After a segmentation result is applied each segment holds the
\* provider's start_time and end_time (0 for a missing one); after
\* updateSegment the targeted segments hold the patch's start_time and
\* end_time where the patch carries them and their former ones otherwise.
C17_TimesStoredAsGiven ==
  /\ ReplaceApplied =>
       /\ Len(Segments) = Len(lastOp.parsed.segments)
       /\ \A i \in 1..Len(Segments) :
            LET raw == lastOp.parsed.segments[i]
            IN /\ Segments[i].start_time
                    = (IF raw.start_time = None THEN 0 ELSE raw.start_time[1])
               /\ Segments[i].end_time
                    = (IF raw.end_time = None THEN 0 ELSE raw.end_time[1])
  /\ UpdateApplied =>
       \E f \in Bijections(Len(lastOp.before)) :
         /\ Tracks(f)
         /\ \A i \in Targeted :
              /\ Segments[f[i]].start_time = PatchedTime(lastOp.before[i], "start_time")
              /\ Segments[f[i]].end_time = PatchedTime(lastOp.before[i], "end_time")

\* C17 witness: an edit of the In input has left a segment that starts after
\* its end
C17_Witness ==
  /\ UpdateApplied
  /\ "start_time" \in DOMAIN lastOp.updates
  /\ \E i \in 1..Len(Segments) :
       /\ Edited(Segments[i])
       /\ Segments[i].start_time = lastOp.updates.start_time
       /\ Segments[i].start_time > Segments[i].end_time

\* ------------------------------------------------- the analyze endpoint
\* C18: the segments the analyze endpoint returns, and so the collection
\* after the result is applied, have pairwise distinct ids, also when some
\* carry a provider id and others the synthesized seg_<index+1>.
C18_IdsDistinct ==
  ReplaceApplied =>
    /\ \A i, j \in 1..Len(lastOp.result) :
         i # j => lastOp.result[i].id # lastOp.result[j].id
    /\ \A i, j \in 1..Len(Segments) :
         i # j => Segments[i].id # Segments[j].id

SegmentFields ==
  {"id", "start_time", "end_time", "type", "summary", "confidence",
   "alternatives", "notes", "segment_metadata", "provenance"}

\* C19: for every provider segment the normalisation yields a well-formed
\* segment: a missing id becomes 'seg_<n>' with n the 1-based position, a
\* missing confidence 0.6, a missing segment_metadata the empty object, the
\* review status is 'unreviewed', and id, type and summary are never empty.
C19_NormalizationWellFormed ==
  ReplaceApplied =>
    /\ Len(lastOp.result) = Len(lastOp.parsed.segments)
    /\ \A n \in 1..Len(lastOp.result) :
         LET raw == lastOp.parsed.segments[n]
             seg == lastOp.result[n]
         IN /\ DOMAIN seg = SegmentFields
            /\ raw.id = None => seg.id = "seg_" \o ToString(n)
            /\ raw.id # None /\ raw.id # Some("") => seg.id = raw.id[1]
            /\ raw.confidence = None => seg.confidence = 60
            /\ raw.confidence # None => seg.confidence = raw.confidence[1]
            /\ raw.segment_metadata = None =>
                 seg.segment_metadata
                   = [tune_type |-> <<>>, tempo_bpm_range |-> <<>>, performers |-> <<>>]
            /\ raw.segment_metadata # None =>
                 seg.segment_metadata = raw.segment_metadata[1]
            /\ seg.provenance.human_review_status = "unreviewed"
            /\ seg.id # "" /\ seg.type # "" /\ seg.summary # ""

\* C19 witness: the second segment of a response came without id,
\* confidence and segment_metadata, the first with all three
C19_Witness ==
  /\ ReplaceApplied
  /\ Len(lastOp.result) = 2
  /\ lastOp.parsed.segments[2].id = None
  /\ lastOp.parsed.segments[2].confidence = None
  /\ lastOp.parsed.segments[2].segment_metadata = None
  /\ lastOp.parsed.segments[1].id # None
  /\ lastOp.parsed.segments[1].segment_metadata # None
  /\ Segments[2].id = "seg_2"

\* ------------------------------------------------------- the projection
\* C20: each display segment's category is given by the canonical segment's
\* type alone: Tune and Song give 'music', Speech gives 'speech', every other
\* value (Silence, Other, a type outside the enumeration) gives 'other'.
C20_CategoryByType ==
  /\ Len(Project(Segments)) = Len(Segments)
  /\ \A i \in 1..Len(Segments) :
       LET type == Segments[i].type
           category == Project(Segments)[i].category
       IN /\ type \in {"Tune", "Song"} => category = "music"
          /\ type = "Speech" => category = "speech"
          /\ type \notin {"Tune", "Song", "Speech"} => category = "other"
  /\ \A i, j \in 1..Len(Segments) :
       Segments[i].type = Segments[j].type
         => Project(Segments)[i].category = Project(Segments)[j].category

\* C20 witness: the projection shows a Song and a segment whose type is
\* outside the enumeration
C20_Witness ==
  /\ Len(Segments) = 2
  /\ Segments[1].type = "Song"
  /\ Segments[2].type = "Chant"
  /\ Project(Segments)[1].category = "music"
  /\ Project(Segments)[2].category = "other"

\* ------------------------------------------------------------ exportCSV
Exported == lastOp.op = "exportCSV"

\* A standard CSV reader over one record.  A comma with an even number of
\* double quotes before it separates two fields; a field that opens with a
\* double quote is read without the enclosing pair, "" inside it being one
\* double quote.
QuotesBefore(row, i) == Cardinality({k \in 1..(i - 1) : row[k] = "\""})

Separators(row) ==
  {i \in 1..Len(row) : row[i] = "," /\ QuotesBefore(row, i) % 2 = 0}

\* The positions fields start at, and the 1-based number of such a field
FieldStarts(row) == {1} \cup {p + 1 : p \in Separators(row)}
FieldNumber(row, start) == Cardinality({p \in Separators(row) : p < start}) + 1

RECURSIVE Undouble(_)
Undouble(text) ==
  IF text = <<>> THEN <<>>
  ELSE IF text[1] # "\"" THEN <<text[1]>> \o Undouble(Tail(text))
  ELSE IF Len(text) >= 2 /\ text[2] = "\""
    THEN <<"\"">> \o Undouble(SubSeq(text, 3, Len(text)))
    ELSE <<"malformed">>

ReadField(raw) ==
  IF raw = <<>> THEN <<>>
  ELSE IF raw[1] # "\"" THEN raw
  ELSE IF Len(raw) >= 2 /\ raw[Len(raw)] = "\""
    THEN Undouble(SubSeq(raw, 2, Len(raw) - 1))
    ELSE <<"malformed">>

\* The field that starts at position `start` of the row
FieldAt(row, start) ==
  LET ends == {p \in Separators(row) : p >= start} \cup {Len(row) + 1}
      end == CHOOSE p \in ends : \A q \in ends : p <= q
  IN ReadField(SubSeq(row, start, end - 1))

\* The value the record holds under a header, the empty text if it has none
StoredValue(h) ==
  LET key == IF h = "isadg.scopeAndContent" THEN "scopeAndContent"
             ELSE IF h = "isadg.findingAids" THEN "findingAids" ELSE h
  IN IF key \in DOMAIN item.descriptive THEN item.descriptive[key] ELSE <<>>

QuotesIn(val) == Cardinality({i \in 1..Len(val) : val[i] = "\""})

\* C21: in the data row every value holding a comma, a double quote or a
\* newline is wrapped in double quotes with its double quotes doubled, every
\* other value is emitted as is, a missing field is the empty string, and the
\* row reads back as one value per header, equal to the stored value.
C21_CsvRowRoundTrip ==
  Exported =>
    /\ Len(lastOp.cells) = Len(ARCHIVAL_CSV_HEADERS)
    /\ \A i \in 1..Len(lastOp.cells) :
         LET val == StoredValue(ARCHIVAL_CSV_HEADERS[i])
             cell == lastOp.cells[i]
         IN IF \E k \in 1..Len(val) : val[k] \in {",", "\"", "\n"}
              THEN /\ Len(cell) = Len(val) + QuotesIn(val) + 2
                   /\ cell[1] = "\"" /\ cell[Len(cell)] = "\""
                   /\ ReadField(cell) = val
              ELSE cell = val
    /\ LET starts == FieldStarts(lastOp.row)
       IN /\ Cardinality(starts) = Len(ARCHIVAL_CSV_HEADERS)
          /\ \A start \in starts :
               FieldAt(lastOp.row, start)
                 = StoredValue(ARCHIVAL_CSV_HEADERS[FieldNumber(lastOp.row, start)])

\* C21 witness: a title holding a comma and a double quote, and a
\* multi-line scope-and-content, have been exported
C21_Witness ==
  /\ Exported
  /\ item.descriptive.title = <<",", "\"">>
  /\ item.descriptive.scopeAndContent # <<>>
  /\ lastOp.cells[15] = <<"\"", ",", "\"", "\"", "\"">>

\* C22: the header row of every exported CSV is the fixed schema in its
\* fixed order and consists of exactly 90 field names, whatever the record
\* holds.
C22_HeaderIs90Fields ==
  Exported =>
    /\ lastOp.header = Join([i \in 1..Len(ARCHIVAL_CSV_HEADERS) |->
                               <<ARCHIVAL_CSV_HEADERS[i]>>], ",")
    /\ Cardinality(FieldStarts(lastOp.header)) = 90

\* C22 as amended: the header row of every exported CSV is the fixed schema
\* in its fixed order, 92 pairwise distinct field names, whatever the record
\* holds.
C22_HeaderIs92Fields ==
  Exported =>
    /\ lastOp.header = Join([i \in 1..Len(ARCHIVAL_CSV_HEADERS) |->
                               <<ARCHIVAL_CSV_HEADERS[i]>>], ",")
    /\ LET starts == FieldStarts(lastOp.header)
       IN /\ Cardinality(starts) = 92
          /\ \A start \in starts :
               FieldAt(lastOp.header, start)
                 = <<ARCHIVAL_CSV_HEADERS[FieldNumber(lastOp.header, start)]>>
          /\ Cardinality({ARCHIVAL_CSV_HEADERS[i] : i \in 1..92}) = 92
          /\ FieldAt(lastOp.header, 1) = <<"descriptor">>
          /\ lastOp.header[Len(lastOp.header)] = "isadg.alternativeTitle"

\* C22 witness: a record with an empty title and description has been
\* exported
C22_Witness ==
  /\ Exported
  /\ item.descriptive.title = <<>>
  /\ item.descriptive.description = <<>>
  /\ item.descriptive.scopeAndContent = <<>>

\* C23: once an ingest has populated item.technical, the technical block of
\* the record changes only when reset clears the record (not a change of a
\* record) or a new ingest, one started after the record's own, replaces the
\* record; no other step changes a technical field.
C23_TechnicalFrozen ==
  [][(item # NullItem /\ item' # NullItem /\ item'.technical # item.technical)
       => item'.ingest > item.ingest]_vars

\* C24: with every collaborator operation eventually yielding an outcome and
\* no reset, every started ingest eventually reaches COMPLETED or ERROR.
C24_IngestTerminates ==
  (pipelines # <<>>) ~> (state \in {"COMPLETED", "ERROR"})

\* The moves of the analysis state one ingest can make
StateMoves ==
  {<<"IDLE", "COMPUTING_CHECKSUM">>, <<"COMPUTING_CHECKSUM", "TRANSCRIBING">>,
   <<"TRANSCRIBING", "ANALYZING">>, <<"ANALYZING", "COMPLETED">>}
    \cup {<<s, "ERROR">> : s \in {"COMPUTING_CHECKSUM", "TRANSCRIBING", "ANALYZING"}}

\* the step on which ingest p's transcript is written to the record
WritesTranscript(p) ==
  pipelines[p].pc = "transcribe" /\ pipelines'[p].pc = "reader"

\* the step on which ingest p sends its /api/analyze request
RequestsSegmentation(p) == CallsAfter(p).analyze > Calls(p).analyze

\* C25: within one ingest without reset the state moves only along
\* COMPUTING_CHECKSUM, TRANSCRIBING, ANALYZING, COMPLETED, with ERROR the only
\* other exit from an in-flight stage; the record exists with its technical
\* fields when the transcript is written, the transcript is in the record
\* when segmentation is requested, and the collection is non-empty only in
\* state COMPLETED.
C25_StagesInOrder ==
  [][/\ state' # state => <<state, state'>> \in StateMoves
     /\ \A p \in Ingests :
          /\ WritesTranscript(p) =>
               /\ item # NullItem
               /\ item.technical = InitialItem(p, pipelines[p].file).technical
               /\ item'.descriptive.transcript = pipelines'[p].transcript
          /\ RequestsSegmentation(p) =>
               /\ item # NullItem
               /\ item.descriptive.transcript = pipelines[p].transcript
               /\ item.descriptive.description = "Phasing semantic audit..."
     /\ Segments' # <<>> => state' = "COMPLETED"]_vars

\* C25 witness: an ingest has run through all its stages to COMPLETED and
\* left segments and its transcript in the record
C25_Witness ==
  /\ state = "COMPLETED"
  /\ lastOp.op = "replaceAll"
  /\ Segments # <<>>
  /\ item.descriptive.transcript = "welcome to the session"
  /\ pipelines[1].calls = [checksum |-> 1, transcribe |-> 1, analyze |-> 1]

\* C26: in every reachable state, error is non-null if and only if state is
\* ERROR.
C26_ErrorIffErrorState == (error # NULL) <=> (state = "ERROR")

\* C27: in every reachable state the display list has the length, the order
\* and the ids, start and end times of the canonical collection, and
\* selectedSegment is non-null exactly when selectedSegmentId is the id of a
\* canonical segment, and is then the projection of the (first) canonical
\* segment with that id as it currently is.
C27_ViewsAgree ==
  LET projected == Project(Segments)
      selected == SelectedSegment(projected, selectedSegmentId)
  IN /\ Len(projected) = Len(Segments)
     /\ \A i \in 1..Len(Segments) :
          /\ projected[i].id = Segments[i].id
          /\ projected[i].startTime = Segments[i].start_time
          /\ projected[i].endTime = Segments[i].end_time
     /\ (selected # None) <=> HasSegment(selectedSegmentId)
     /\ selected # None =>
          \E i \in 1..Len(Segments) :
            /\ Segments[i].id = selectedSegmentId
            /\ \A j \in 1..(i - 1) : Segments[j].id # selectedSegmentId
            /\ selected[1] = ProjectSegment(Segments[i])

\* C27 witness: the selected segment has just been edited, and the detail
\* view shows the start time of the patch
C27_Witness ==
  /\ UpdateApplied
  /\ lastOp.segId = selectedSegmentId
  /\ "start_time" \in DOMAIN lastOp.updates
  /\ Len(Segments) = 2
  /\ SelectedSegment(Project(Segments), selectedSegmentId)[1].startTime
       = lastOp.updates.start_time
  /\ \E i \in 1..Len(lastOp.before) :
       /\ lastOp.before[i].id = selectedSegmentId
       /\ lastOp.before[i].start_time # lastOp.updates.start_time

\* C28: updateSegment is idempotent: applying updateSegment(id, patch) to the
\* collection a first updateSegment(id, patch) produced yields that same
\* collection, same segments in the same order.
C28_UpdateIdempotent ==
  UpdateApplied =>
    LET once == UpdateSegments(lastOp.before, lastOp.segId, lastOp.updates)
    IN /\ Segments = once
       /\ UpdateSegments(once, lastOp.segId, lastOp.updates) = once

\* C28 witness: an update has patched a segment and moved it next to a
\* different segment with the same start time
C28_Witness ==
  /\ UpdateApplied
  /\ Targeted # {}
  /\ Segments # lastOp.before
  /\ Len(Segments) = 2
  /\ Segments[1].start_time = Segments[2].start_time
  /\ Segments[1] # Segments[2]

\* the /api/analyze request of an ingest whose transcript is empty has just
\* been answered with a rejection
EmptyTranscriptRejected ==
  AnalyzeFailed /\ pipelines[lastOp.ingest].transcript = ""

C30_ResultFrame ==
  [][(lastOp'.op = "replaceAll" /\ item # NullItem) =>
       LET result == AnalyzeResponse(lastOp'.parsed, lastOp'.ingest)
       IN /\ item' # NullItem
          /\ item'.descriptive.temporal_index = result.temporal_index
          /\ item'.descriptive.scopeAndContent = result.temporal_index
          /\ item'.descriptive.findingAids = result.temporal_index
          /\ item'.descriptive.description = result.description
          /\ \A f \in DOMAIN item.descriptive
                        \ {"temporal_index", "scopeAndContent", "findingAids",
                           "description"} :
               item'.descriptive[f] = item.descriptive[f]
          /\ DOMAIN item'.descriptive = DOMAIN item.descriptive
          /\ item'.technical = item.technical
          /\ item'.administrative = item.administrative]_vars

\* C30 witness: a result with a description and a temporal index has been
\* applied to a record that holds a transcript
C30_Witness ==
  /\ ReplaceApplied
  /\ lastOp.parsed.description # None
  /\ item.descriptive.description = "A house session."
  /\ item.descriptive.findingAids = "0-2: session"
  /\ item.descriptive.transcript = "welcome to the session"
  /\ item.technical.checksum = "sha-1"

====
